---- MODULE Spec2Model ----
(***************************************************************************)
(* Model of src/src/Session.ts (better-sse 0.8.0): one Session object, the *)
(* request/response pair it borrows, the caller issuing encoder calls, one *)
(* readable producer passed to stream(), and the event loop that runs the  *)
(* setImmediate callback.  Every action is one callback run to completion. *)
(*                                                                         *)
(* Strings are sequences of tokens; the tokens that matter to the wire     *)
(* format (CR, LF, ":") are single characters.  JavaScript values are      *)
(* records [type, str] where str is the value's string form.               *)
(***************************************************************************)
EXTENDS Integers, Sequences, FiniteSets, TLC

\* ---------------------------------------------------------------- bounds
\* environment events (caller operations and producer notifications) per run
MaxSteps == 2
\* producer notifications per run when the session is used through stream() only
MaxEmits == 3
\* encoder calls per run, and the length of their string arguments, when the
\* caller only writes fields
MaxFields == 2
MaxLen == 3
\* environment events per run when the event loop is fair to the tick
MaxFairSteps == 1
\* environment events per run when the status code and the headers vary
MaxHeaderSteps == 1

\* ---------------------------------------------------------- JS values
LF == "\n"
CR == "\r"

Str(s) == [type |-> "string", str |-> s]
Num(n) == [type |-> "number", str |-> <<ToString(n)>>]
Bool(b) == [type |-> "boolean", str |-> <<IF b THEN "true" ELSE "false">>]
Buf(s) == [type |-> "buffer", str |-> s]
Null == [type |-> "null", str |-> <<>>]
Undefined == [type |-> "undefined", str |-> <<>>]

\* JavaScript truthiness (the `x && ...` and `x ? a : b` tests)
Truthy(v) ==
    CASE v.type = "string" -> v.str # <<>>
      [] v.type = "number" -> v.str # <<"0">>
      [] v.type = "boolean" -> v.str = <<"true">>
      [] v.type = "buffer" -> TRUE
      [] OTHER -> FALSE

\* x.toString() is a TypeError on null and undefined
HasToString(v) == v.type \notin {"null", "undefined"}

\* ------------------------------------------- serializer and sanitizer
RECURSIVE JsonEscape(_)
JsonEscape(s) ==
    IF s = <<>> THEN <<>>
    ELSE (CASE s[1] = LF -> <<"\\", "n">>
            [] s[1] = CR -> <<"\\", "r">>
            [] s[1] = "\"" -> <<"\\", "\"">>
            [] OTHER -> <<s[1]>>) \o JsonEscape(Tail(s))

\* default serializer: JSON.stringify
serialize(v) ==
    CASE v.type = "string" -> Str(<<"\"">> \o JsonEscape(v.str) \o <<"\"">>)
      [] v.type = "number" -> Str(v.str)
      [] v.type = "boolean" -> Str(v.str)
      [] v.type = "null" -> Str(<<"null">>)
      [] OTHER -> Undefined

RECURSIVE StandardizeNewlines(_)
StandardizeNewlines(s) ==
    IF s = <<>> THEN <<>>
    ELSE IF Len(s) >= 2 /\ s[1] = CR /\ s[2] = LF
         THEN <<LF>> \o StandardizeNewlines(SubSeq(s, 3, Len(s)))
    ELSE IF s[1] \in {CR, LF}
         THEN <<LF>> \o StandardizeNewlines(Tail(s))
    ELSE <<s[1]>> \o StandardizeNewlines(Tail(s))

RECURSIVE StripTrailingNewlines(_)
StripTrailingNewlines(s) ==
    IF s # <<>> /\ s[Len(s)] = LF
    THEN StripTrailingNewlines(SubSeq(s, 1, Len(s) - 1))
    ELSE s

\* default sanitizer
sanitize(s) == StripTrailingNewlines(StandardizeNewlines(s))

\* ------------------------------------------------------------ inputs
DefaultStatusCode == 200
DefaultRetry == 2000
RetryOptions == {Null, Num(DefaultRetry)}
HeaderValues == {Undefined, Str(<<"h7">>)}
EventTypes == {Str(<<"custom">>)}
IdValues == {Null, Str(<<"x", LF>>)}
DataValues == {Str(<<"a">>)}
RetryTimes == {Num(5000)}
CommentTexts == {Undefined}
Payloads == {Str(<<"a">>), Num(0), Null}
PushEvents == {Str(<<"custom">>)}
PushData == {Str(<<"a">>), Undefined}
RandomIds == {Str(<<"0a1b2c3d">>)}
StreamEvents == {Undefined, Str(<<"tick">>), Str(<<>>)}
ChunkValues == {Str(<<"a">>), Buf(<<"b">>)}
ErrorValues == {"E1", "E2"}
Chars == {"a", CR, LF}
StatusCodes == {DefaultStatusCode, 204, 301}
HeaderOptions ==
    {<<>>,
     <<[name |-> "Location", value |-> Str(<<"/new">>)]>>,
     <<[name |-> "content-type", value |-> Str(<<"text/plain">>)]>>,
     <<[name |-> "X-Tag", value |-> Undefined]>>,
     <<[name |-> "Cache-Control", value |-> Str(<<"max-age=60">>)],
       [name |-> "X-Tag", value |-> Str(<<"t">>)]>>}

\* the strings over Chars of length n, and of length at most n
RECURSIVE StringsOfLen(_)
StringsOfLen(n) ==
    IF n = 0 THEN {<<>>}
    ELSE {<<c>> \o t : c \in Chars, t \in StringsOfLen(n - 1)}

Strings == UNION {StringsOfLen(n) : n \in 0..MaxLen}

\* ------------------------------------------------------------- state
VARIABLES
    trustClientEventId,  \* this.trustClientEventId
    initialRetry,        \* this.initialRetry
    lastEventIdHeader,   \* this.req.headers["last-event-id"]
    statusCode,          \* this.statusCode
    headers,             \* this.headers, as Object.entries lists them
    lastId,              \* this.lastId
    immediate,           \* the setImmediate(this.onConnected) callback is queued
    closeFired,          \* the request has emitted "close"
    flushed,             \* number of res.flushHeaders() calls
    resStatusCode,       \* this.res.statusCode
    resHeaders,          \* the headers set on the response, by name
    out,                 \* the res.write() calls, in order
    emitted,             \* the this.emit() calls, in order
    streamOptions,       \* options.event given to stream(), Undefined if none
    subscribed,          \* stream() has attached its listeners
    onceListeners,       \* the once-listeners of stream() still attached
    completion,          \* the promise returned by stream()
    produced,            \* the notifications the producer has emitted
    budget               \* environment events the run may still take

vars == <<trustClientEventId, initialRetry, lastEventIdHeader, statusCode,
          headers, lastId, immediate, closeFired, flushed, resStatusCode,
          resHeaders, out, emitted, streamOptions,
          subscribed, onceListeners, completion, produced, budget>>

config == <<trustClientEventId, initialRetry, lastEventIdHeader, statusCode,
            headers>>
producer == <<streamOptions, subscribed, onceListeners, completion, produced>>

Pending == [state |-> "pending", value |-> "none"]

\* -------------------------------------------------- session methods
\* A callback runs on a record w of the state it can change: the response
\* (out, flushed), the session (lastId, emitted), the callback that is
\* running (by) and whether an exception has ended it (thrown).
World(by) ==
    [out |-> out, lastId |-> lastId, flushed |-> flushed,
     resStatusCode |-> resStatusCode, resHeaders |-> resHeaders,
     emitted |-> emitted, by |-> by, thrown |-> FALSE]

Commit(w) ==
    /\ out' = w.out
    /\ lastId' = w.lastId
    /\ flushed' = w.flushed
    /\ resStatusCode' = w.resStatusCode
    /\ resHeaders' = w.resHeaders
    /\ emitted' = w.emitted

\* `${name}:${sanitized}\n`
FieldText(name, sanitized) ==
    (IF name = "" THEN <<>> ELSE <<name>>) \o <<":">> \o sanitized \o <<LF>>

\* this.res.write(text)
Write(w, text) ==
    [w EXCEPT !.out = Append(@, [text |-> text, by |-> w.by])]

\* this.emit(name); a listener sees the response and lastId as they are now
Emit(w, name) ==
    [w EXCEPT !.emitted = Append(@, [name |-> name,
                                     headersSent |-> w.flushed > 0,
                                     lastId |-> w.lastId])]

\* the sanitizer is a string function: a value that is not a string throws
writeField(w, name, value) ==
    IF w.thrown THEN w
    ELSE IF value.type # "string" THEN [w EXCEPT !.thrown = TRUE]
    ELSE Write(w, FieldText(name, sanitize(value.str)))

dispatch(w) ==
    IF w.thrown THEN w ELSE Write(w, <<LF>>)

event(w, type) == writeField(w, "event", type)

data(w, d) == writeField(w, "data", serialize(d))

\* an id() that stores what it wrote
id_StoresSanitized(w, i) ==
    LET stringifed == IF Truthy(i) THEN i ELSE Str(<<>>)
        written == writeField(w, "id", stringifed)
    IN IF written.thrown THEN written
       ELSE [written EXCEPT !.lastId = sanitize(stringifed.str)]

id(w, i) ==
    LET stringifed == IF Truthy(i) THEN i ELSE Str(<<>>)
        written == writeField(w, "id", stringifed)
    IN IF written.thrown THEN written
       ELSE [written EXCEPT !.lastId = stringifed.str]

retry(w, time) == writeField(w, "retry", Str(time.str))

comment(w, text) ==
    writeField(w, "", IF text.type \in {"null", "undefined"}
                      THEN Str(<<>>) ELSE text)

\* the overload resolution of push: the event name and the payload
PushArgs(eventOrData, d) ==
    IF Truthy(eventOrData) /\ d.type = "undefined"
    THEN [eventName |-> Str(<<"message">>), rawData |-> eventOrData,
          thrown |-> FALSE]
    ELSE IF HasToString(eventOrData)
    THEN [eventName |-> Str(eventOrData.str), rawData |-> d, thrown |-> FALSE]
    ELSE [eventName |-> Undefined, rawData |-> d, thrown |-> TRUE]

\* a push() that ends the event before it has written it
push_DispatchFirst(w, eventOrData, d, nextId) ==
    LET a == PushArgs(eventOrData, d)
    IN IF w.thrown THEN w
       ELSE IF a.thrown THEN [w EXCEPT !.thrown = TRUE]
       ELSE data(id(event(dispatch(w), a.eventName), nextId), a.rawData)

push(w, eventOrData, d, nextId) ==
    LET a == PushArgs(eventOrData, d)
    IN IF w.thrown THEN w
       ELSE IF a.thrown THEN [w EXCEPT !.thrown = TRUE]
       ELSE dispatch(data(id(event(w, a.eventName), nextId), a.rawData))

\* ------------------------------------------------------- lifecycle
\* header names do not depend on case: the response keeps them lower-cased
LowerCase(name) ==
    CASE name = "Content-Type" -> "content-type"
      [] name = "Cache-Control" -> "cache-control"
      [] name = "Connection" -> "connection"
      [] name = "Location" -> "location"
      [] name = "X-Tag" -> "x-tag"
      [] OTHER -> name

\* this.res.setHeader(name, value)
setHeader(w, name, value) ==
    LET key == LowerCase(name)
    IN [w EXCEPT !.resHeaders =
          [n \in DOMAIN @ \cup {key} |-> IF n = key THEN value ELSE @[n]]]

\* Object.entries(this.headers).forEach(... setHeader(name, value ?? ""))
RECURSIVE setHeaders(_, _)
setHeaders(w, entries) ==
    IF entries = <<>> THEN w
    ELSE setHeaders(setHeader(w, entries[1].name,
                              IF entries[1].value.type \in {"null", "undefined"}
                              THEN <<>> ELSE entries[1].value.str),
                    Tail(entries))

\* an initialization that takes the header whatever trustClientEventId says
initLastId_AlwaysTrusts(w) ==
    [w EXCEPT !.lastId =
        IF lastEventIdHeader.type \in {"null", "undefined"}
        THEN <<>> ELSE lastEventIdHeader.str]

\* lines 127-131 of onConnected
initLastId(w) ==
    IF trustClientEventId
    THEN [w EXCEPT !.lastId =
             IF lastEventIdHeader.type \in {"null", "undefined"}
             THEN <<>> ELSE lastEventIdHeader.str]
    ELSE w

\* an initialization that sets the caller's headers last
initHeaders_CallerLast(w) ==
    LET w1 == setHeader(w, "Content-Type", <<"text/event-stream">>)
        w2 == setHeader(w1, "Cache-Control", <<"no-cache, no-transform">>)
        w3 == setHeader(w2, "Connection", <<"keep-alive">>)
    IN [setHeaders(w3, headers) EXCEPT !.resStatusCode = statusCode]

\* lines 133-140 of onConnected
initHeaders(w) ==
    LET w1 == [setHeaders(w, headers) EXCEPT !.resStatusCode = statusCode]
        w2 == setHeader(w1, "Content-Type", <<"text/event-stream">>)
        w3 == setHeader(w2, "Cache-Control", <<"no-cache, no-transform">>)
    IN setHeader(w3, "Connection", <<"keep-alive">>)

\* this.res.flushHeaders()
flushHeaders(w) == [w EXCEPT !.flushed = @ + 1]

\* lines 143-145 of onConnected
initRetry(w) ==
    IF initialRetry.type # "null"
    THEN dispatch(retry(w, initialRetry))
    ELSE w

onConnectedBody_EmitFirst(w) ==
    initRetry(flushHeaders(initHeaders(Emit(initLastId(w), "connected"))))

onConnectedBody_RetryNotDispatched(w) ==
    Emit(retry(flushHeaders(initHeaders(initLastId(w))), initialRetry),
         "connected")

onConnectedBody(w) ==
    Emit(initRetry(flushHeaders(initHeaders(initLastId(w)))), "connected")

onDisconnectedBody_Twice(w) == Emit(Emit(w, "disconnected"), "disconnected")

\* a close handler that forgets the last id
onDisconnectedBody_ClearsLastId(w) ==
    Emit([w EXCEPT !.lastId = <<>>], "disconnected")

onDisconnectedBody(w) == Emit(w, "disconnected")

InitWith(b) ==
    /\ trustClientEventId \in BOOLEAN
    /\ initialRetry \in RetryOptions
    /\ lastEventIdHeader \in HeaderValues
    /\ statusCode = DefaultStatusCode
    /\ headers = <<>>
    /\ lastId = <<>>
    /\ immediate = TRUE
    /\ closeFired = FALSE
    /\ flushed = 0
    /\ resStatusCode = 0
    /\ resHeaders = <<>>
    /\ out = <<>>
    /\ emitted = <<>>
    /\ streamOptions = Undefined
    /\ subscribed = FALSE
    /\ onceListeners = {}
    /\ completion = Pending
    /\ produced = <<>>
    /\ budget = b

Init == InitWith(MaxSteps)

\* an initialization that is skipped once the request has closed
onConnected_SkippedAfterClose ==
    /\ immediate
    /\ immediate' = FALSE
    /\ Commit(IF closeFired THEN World("init")
              ELSE onConnectedBody(World("init")))
    /\ UNCHANGED <<config, closeFired, producer, budget>>

\* a tick that the close of the request cancels
onConnected_CancelledByClose ==
    /\ immediate
    /\ ~closeFired
    /\ immediate' = FALSE
    /\ Commit(onConnectedBody(World("init")))
    /\ UNCHANGED <<config, closeFired, producer, budget>>

\* the event loop runs the setImmediate callback
onConnected ==
    /\ immediate
    /\ immediate' = FALSE
    /\ Commit(onConnectedBody(World("init")))
    /\ UNCHANGED <<config, closeFired, producer, budget>>

\* a close handler that ends the stream() in progress
onDisconnected_SettlesStream ==
    /\ ~closeFired
    /\ closeFired' = TRUE
    /\ Commit(onDisconnectedBody(World("close")))
    /\ completion' = (IF subscribed /\ completion.state = "pending"
                      THEN [state |-> "resolved", value |-> "true"]
                      ELSE completion)
    /\ UNCHANGED <<config, immediate, streamOptions, subscribed,
                   onceListeners, produced, budget>>

\* the request emits "close"
onDisconnected ==
    /\ ~closeFired
    /\ closeFired' = TRUE
    /\ Commit(onDisconnectedBody(World("close")))
    /\ UNCHANGED <<config, immediate, producer, budget>>

\* a caller operation on the session
Call(w) ==
    /\ budget > 0
    /\ budget' = budget - 1
    /\ Commit(w)
    /\ UNCHANGED <<config, immediate, closeFired, producer>>

CallEvent == \E t \in EventTypes :
    Call(event(World("caller"), t))

CallData == \E d \in DataValues :
    Call(data(World("caller"), d))

CallId == \E i \in IdValues :
    Call(id(World("caller"), i))

CallRetry == \E t \in RetryTimes :
    Call(retry(World("caller"), t))

CallComment == \E t \in CommentTexts :
    Call(comment(World("caller"), t))

CallDispatch ==
    Call(dispatch(World("caller")))

\* push(v): one argument
CallPush1 == \E v \in Payloads, r \in RandomIds :
    Call(push(World("caller"), v, Undefined, r))

\* push(e, v): two arguments
CallPush2 == \E e \in PushEvents, v \in PushData, r \in RandomIds :
    Call(push(World("caller"), e, v, r))

\* stream(producer, options): the promise executor attaches the listeners
CallStream == \E e \in StreamEvents :
    /\ ~subscribed
    /\ subscribed' = TRUE
    /\ streamOptions' = e
    /\ onceListeners' = {"end", "close", "error"}
    /\ UNCHANGED <<config, lastId, immediate, closeFired, flushed,
                   resStatusCode, resHeaders, out, emitted, completion,
                   produced, budget>>

\* const {event = "stream"} = options
streamEvent(options) ==
    IF options.type = "undefined" THEN Str(<<"stream">>) ELSE options

\* a data listener that passes the chunk to push() alone
dataListener_EventDropped(w, chunk, nextId) ==
    LET d == IF chunk.type = "buffer" THEN Str(chunk.str) ELSE chunk
    IN push(w, d, Undefined, nextId)

\* the data listener of stream()
dataListener(w, chunk, nextId) ==
    LET d == IF chunk.type = "buffer" THEN Str(chunk.str) ELSE chunk
    IN push(w, streamEvent(streamOptions), d, nextId)

\* a completion that the last notification settles
Settle_LastWins(c, state, value) == [state |-> state, value |-> value]

\* resolve(true) and reject(err) settle a pending promise only
Settle(c, state, value) ==
    IF c.state = "pending" THEN [state |-> state, value |-> value] ELSE c

Notify(n) ==
    /\ subscribed
    /\ budget > 0
    /\ budget' = budget - 1
    /\ produced' = Append(produced, n)
    /\ UNCHANGED <<config, immediate, closeFired, streamOptions, subscribed>>

ProducerData == \E c \in ChunkValues, r \in RandomIds :
    /\ Notify([kind |-> "data", chunk |-> c, error |-> "none"])
    /\ Commit(dataListener(World("stream"), c, r))
    /\ UNCHANGED <<onceListeners, completion>>

OnceNotify(kind, err, state, value) ==
    /\ Notify([kind |-> kind, chunk |-> Undefined, error |-> err])
    /\ onceListeners' = onceListeners \ {kind}
    /\ completion' = (IF kind \in onceListeners
                      THEN Settle(completion, state, value)
                      ELSE completion)
    /\ UNCHANGED <<lastId, flushed, resStatusCode, resHeaders, out, emitted>>

ProducerEnd == OnceNotify("end", "none", "resolved", "true")

ProducerClose == OnceNotify("close", "none", "resolved", "true")

\* an error listener that rejects without the error
ProducerError_ErrorLost == \E e \in ErrorValues :
    OnceNotify("error", e, "rejected", "none")

ProducerError == \E e \in ErrorValues :
    OnceNotify("error", e, "rejected", e)

Next ==
    \/ onConnected
    \/ onDisconnected
    \/ CallEvent
    \/ CallData
    \/ CallId
    \/ CallRetry
    \/ CallComment
    \/ CallDispatch
    \/ CallPush1
    \/ CallPush2
    \/ CallStream
    \/ ProducerData
    \/ ProducerEnd
    \/ ProducerClose
    \/ ProducerError

Spec == Init /\ [][Next]_vars

\* the event loop runs a queued setImmediate callback sooner or later
FairInit == InitWith(MaxFairSteps)

FairSpec == FairInit /\ [][Next]_vars /\ WF_vars(onConnected)

\* the session constructed with a status code and headers of the caller
HeaderInit ==
    /\ trustClientEventId \in BOOLEAN
    /\ initialRetry \in RetryOptions
    /\ lastEventIdHeader \in HeaderValues
    /\ statusCode \in StatusCodes
    /\ headers \in HeaderOptions
    /\ lastId = <<>>
    /\ immediate = TRUE
    /\ closeFired = FALSE
    /\ flushed = 0
    /\ resStatusCode = 0
    /\ resHeaders = <<>>
    /\ out = <<>>
    /\ emitted = <<>>
    /\ streamOptions = Undefined
    /\ subscribed = FALSE
    /\ onceListeners = {}
    /\ completion = Pending
    /\ produced = <<>>
    /\ budget = MaxHeaderSteps

HeaderSpec == HeaderInit /\ [][Next]_vars

\* the session used through stream() only
StreamInit == InitWith(MaxEmits)

StreamNext ==
    \/ onConnected
    \/ onDisconnected
    \/ CallStream
    \/ ProducerData
    \/ ProducerEnd
    \/ ProducerClose
    \/ ProducerError

StreamSpec == StreamInit /\ [][StreamNext]_vars

\* the caller only writes fields, with any string as argument
EncoderInit == InitWith(MaxFields)

EncodeEvent == \E t \in Strings :
    Call(event(World("caller"), Str(t)))

EncodeId == \E t \in Strings :
    Call(id(World("caller"), Str(t)))

EncodeComment == \E t \in Strings :
    Call(comment(World("caller"), Str(t)))

EncoderNext ==
    \/ EncodeEvent
    \/ EncodeId
    \/ EncodeComment
    \/ CallData
    \/ CallRetry
    \/ CallDispatch

EncoderSpec == EncoderInit /\ [][EncoderNext]_vars

\* ==================================================================
\* Properties
\* ==================================================================
Emitted(name) == {i \in DOMAIN emitted : emitted[i].name = name}

\* req.headers["last-event-id"] ?? ""
GivenLastEventId ==
    IF lastEventIdHeader.type \in {"null", "undefined"}
    THEN <<>> ELSE lastEventIdHeader.str

WritesBy(who) == SelectSeq(out, LAMBDA e : e.by = who)

FieldName(write) == IF write.text[1] = ":" THEN "" ELSE write.text[1]

\* the writes a step appended to the response
NewWrites == SubSeq(out', Len(out) + 1, Len(out'))

C3_DisconnectedOnlyOnClose ==
    /\ [](Cardinality(Emitted("disconnected")) = (IF closeFired THEN 1 ELSE 0))
    /\ [][Emitted("disconnected")' # Emitted("disconnected") =>
            /\ ~closeFired /\ closeFired'
            /\ UNCHANGED <<budget, produced, immediate, out, completion>>]_vars

\* the request closed on a session that had written and streamed
C3_Witness ==
    /\ closeFired
    /\ Cardinality(Emitted("disconnected")) = 1
    /\ ~immediate
    /\ WritesBy("caller") # <<>>
    /\ WritesBy("stream") # <<>>

\* the retry frame the initialization writes
RetryFrame ==
    IF initialRetry.type = "null" THEN <<>>
    ELSE <<[text |-> <<"retry", ":">> \o initialRetry.str \o <<LF>>,
            by |-> "init"],
           [text |-> <<LF>>, by |-> "init"]>>

Push1Step(v, r) == Call(push(World("caller"), v, Undefined, r))

Push2Step(e, v, r) == Call(push(World("caller"), e, v, r))

IdStep(i) == Call(id(World("caller"), i))

PushStep == CallPush1 \/ CallPush2 \/ ProducerData

\* C5 as stated: every call of push appends exactly four writes: an event
\* field, an id field, a data field and the dispatch.
C5_PushWritesFour ==
    [][PushStep =>
          /\ Len(NewWrites) = 4
          /\ FieldName(NewWrites[1]) = "event"
          /\ FieldName(NewWrites[2]) = "id"
          /\ FieldName(NewWrites[3]) = "data"
          /\ NewWrites[4].text = <<LF>>]_vars

\* C6 as stated: push(v) writes an event of type "message" whose data is
\* the serialization of v, also for a falsy v; push(e, v) writes an event
\* of type e whose data is the serialization of v.
C6_PushOverload ==
    [][/\ \A v \in Payloads, r \in RandomIds :
             Push1Step(v, r) =>
                /\ Len(NewWrites) = 4
                /\ NewWrites[1].text = FieldText("event", <<"message">>)
                /\ NewWrites[3].text =
                      FieldText("data", sanitize(serialize(v).str))
       /\ \A e \in PushEvents, v \in PushData \ {Undefined}, r \in RandomIds :
             Push2Step(e, v, r) =>
                /\ Len(NewWrites) = 4
                /\ NewWrites[1].text = FieldText("event", e.str)
                /\ NewWrites[3].text =
                      FieldText("data", sanitize(serialize(v).str))]_vars

\* what id(i) stores: "" for null, the string itself otherwise
IdString(i) == IF i.type = "null" THEN <<>> ELSE i.str

HasIdField == \E k \in DOMAIN out : FieldName(out[k]) = "id"

\* id(i) writes the sanitized id and stores the id as given
IdEffect ==
    \A i \in IdValues :
        IdStep(i) =>
           /\ Len(NewWrites) = 1
           /\ NewWrites[1].text = FieldText("id", sanitize(IdString(i)))
           /\ lastId' = IdString(i)

DataNotes == SelectSeq(produced, LAMBDA n : n.kind = "data")

Terminals == SelectSeq(produced, LAMBDA n : n.kind # "data")

StreamWrites == WritesBy("stream")

\* the event type stream() was asked for
AskedEvent ==
    IF streamOptions.type = "undefined" THEN <<"stream">>
    ELSE streamOptions.str

\* the k-th event the adapter wrote carries the k-th chunk
ChunkEvent(k) ==
    /\ StreamWrites[4 * k - 3].text = FieldText("event", AskedEvent)
    /\ FieldName(StreamWrites[4 * k - 2]) = "id"
    /\ StreamWrites[4 * k - 1].text =
          FieldText("data", sanitize(serialize(Str(DataNotes[k].chunk.str)).str))
    /\ StreamWrites[4 * k].text = <<LF>>

\* C8: the adapter writes one dispatched event per chunk, in the order the
\* producer emitted them, each of the type asked for ("stream" when none
\* was) and carrying that chunk; and when the producer's first notification
\* other than data is its end, the completion is resolved with true.
C8_StreamEventsInOrder ==
    /\ Len(StreamWrites) = 4 * Len(DataNotes)
    /\ \A k \in 1..Len(DataNotes) : ChunkEvent(k)
    /\ (Terminals # <<>> /\ Terminals[1].kind = "end") =>
          completion = [state |-> "resolved", value |-> "true"]

\* two different chunks, then the end, with the default event type
C8_Witness ==
    /\ Len(produced) = 3
    /\ produced[1].kind = "data"
    /\ produced[2].kind = "data"
    /\ produced[1].chunk # produced[2].chunk
    /\ produced[3].kind = "end"
    /\ streamOptions.type = "undefined"
    /\ Len(StreamWrites) = 8
    /\ completion = [state |-> "resolved", value |-> "true"]

\* the data notifications that came before the first error
DataBeforeError ==
    LET firstError == CHOOSE i \in DOMAIN produced :
            /\ produced[i].kind = "error"
            /\ \A j \in 1..(i - 1) : produced[j].kind # "error"
    IN SelectSeq(SubSeq(produced, 1, firstError), LAMBDA n : n.kind = "data")

ErrorFirst == Terminals # <<>> /\ Terminals[1].kind = "error"

\* C9 as stated: when the producer errors before it ends, the completion is
\* rejected with that error and no event is written for a chunk emitted
\* after the error.
C9_NoEventsAfterError ==
    ErrorFirst =>
       /\ completion = [state |-> "rejected", value |-> Terminals[1].error]
       /\ Len(StreamWrites) = 4 * Len(DataBeforeError)

\* C9 amended: when the producer errors before it ends or closes, the
\* completion is rejected with that error; the data listener stays
\* attached, so a chunk emitted after the error is written as an event
\* like any other.
C9_RejectedButStillWriting ==
    ErrorFirst =>
       /\ completion = [state |-> "rejected", value |-> Terminals[1].error]
       /\ Len(StreamWrites) = 4 * Len(DataNotes)
       /\ \A k \in 1..Len(DataNotes) : FieldName(StreamWrites[4 * k - 1]) = "data"

\* an error, then a chunk that is still written
C9_Witness ==
    /\ Len(produced) >= 2
    /\ produced[1].kind = "error"
    /\ produced[2].kind = "data"
    /\ Len(StreamWrites) = 4
    /\ completion = [state |-> "rejected", value |-> produced[1].error]

\* the notification a producer step emitted
Notified == produced'[Len(produced')]

TerminalStep == Len(produced') = Len(produced) + 1 /\ Notified.kind # "data"

\* C10: the completion is settled by the first end, close or error: end and
\* close resolve it with true, error rejects it with the error; once
\* settled it never changes, and no end, close or error writes anything.
C10_SettledOnce ==
    [][/\ completion.state # "pending" => completion' = completion
       /\ completion' # completion => TerminalStep
       /\ TerminalStep =>
             /\ out' = out
             /\ completion.state = "pending" =>
                   completion' =
                      IF Notified.kind = "error"
                      THEN [state |-> "rejected", value |-> Notified.error]
                      ELSE [state |-> "resolved", value |-> "true"]]_vars

\* an error settled the completion and an end and a close came after it
C10_Witness ==
    /\ Len(Terminals) = 3
    /\ Terminals[1].kind = "error"
    /\ Terminals[2].kind = "end"
    /\ Terminals[3].kind = "close"
    /\ completion = [state |-> "rejected", value |-> Terminals[1].error]

\* the sanitized value a field write carries: what stands between the
\* colon and the closing line feed
FieldValue(write) ==
    LET colon == CHOOSE i \in DOMAIN write.text :
            write.text[i] = ":" /\ \A j \in 1..(i - 1) : write.text[j] # ":"
    IN SubSeq(write.text, colon + 1, Len(write.text) - 1)

IsField(write) == write.text # <<LF>>

\* C11 as stated: a sanitized value contains no CR, no two consecutive LF,
\* and does not end with LF.
C11_SanitizedHasNoBlankLine ==
    \A k \in DOMAIN out :
        IsField(out[k]) =>
           LET v == FieldValue(out[k])
           IN /\ \A i \in DOMAIN v : v[i] # CR
              /\ \A i \in 1..(Len(v) - 1) : ~(v[i] = LF /\ v[i + 1] = LF)
              /\ v # <<>> => v[Len(v)] # LF

\* the response body: the written texts, one after the other
RECURSIVE Flatten(_)
Flatten(writes) ==
    IF writes = <<>> THEN <<>>
    ELSE writes[1].text \o Flatten(Tail(writes))

LineFeeds(text) == Cardinality({i \in DOMAIN text : text[i] = LF})

\* the empty lines of a text: a line feed at its start or after a line feed
EmptyLines(text) ==
    Cardinality({i \in DOMAIN text :
                    text[i] = LF /\ (i = 1 \/ text[i - 1] = LF)})

Dispatches == Cardinality({k \in DOMAIN out : ~IsField(out[k])})

\* C12 as stated: every field write is exactly one line of the body, and
\* the body has as many empty lines as dispatch() was called.
C12_OneLinePerField ==
    /\ \A k \in DOMAIN out : IsField(out[k]) => LineFeeds(out[k].text) = 1
    /\ EmptyLines(Flatten(out)) = Dispatches

\* what a write is: the name of its field, or the dispatch
WriteKind(write) == IF IsField(write) THEN FieldName(write) ELSE "dispatch"

PushKinds == <<"event", "id", "data", "dispatch">>

C14_LastIdAfterInit ==
    (~immediate /\ ~HasIdField) =>
        lastId = (IF trustClientEventId THEN GivenLastEventId ELSE <<>>)

\* the tick has run on a request with a header that is not trusted, and
\* the caller has written fields other than id
C14_Witness ==
    /\ ~immediate
    /\ ~trustClientEventId
    /\ lastEventIdHeader.type = "string"
    /\ ~HasIdField
    /\ WritesBy("caller") # <<>>
    /\ lastId = <<>>

\* the step wrote an id field that carries the new lastId
WroteNewLastId ==
    \E k \in DOMAIN NewWrites :
        NewWrites[k].text = FieldText("id", sanitize(lastId'))

\* the steps that write no id field, the deferred tick aside
NoIdStep ==
    \/ CallEvent
    \/ CallData
    \/ CallRetry
    \/ CallComment
    \/ CallDispatch
    \/ onDisconnected
    \/ ProducerEnd
    \/ ProducerClose
    \/ ProducerError

\* C15 as stated: lastId changes only in a step that writes an id field;
\* event(), data(), retry(), comment(), dispatch(), the deferred tick, the
\* close handler and the producer's end, close and error keep it.
C15_LastIdOnlyThroughId ==
    [][/\ lastId' # lastId => WroteNewLastId
       /\ (NoIdStep \/ onConnected) => lastId' = lastId]_vars

\* C15 amended: lastId changes only in a step that writes an id field, or
\* in the deferred tick of a session that trusts the client's id, which
\* assigns the request's last-event-id header (the empty string if
\* absent); the tick of a session that does not trust it, and the other
\* steps listed, keep lastId.
C15_LastIdThroughIdOrInit ==
    [][/\ lastId' # lastId =>
             \/ WroteNewLastId
             \/ onConnected /\ trustClientEventId
       /\ onConnected =>
             lastId' = (IF trustClientEventId THEN GivenLastEventId
                        ELSE lastId)
       /\ lastId' = lastId \/ ~NoIdStep]_vars

\* the tick has given lastId a value, no id field was ever written, and
\* the caller's other fields and the close have left that value alone
C15_Witness ==
    /\ ~immediate
    /\ trustClientEventId
    /\ lastId = GivenLastEventId
    /\ lastId # <<>>
    /\ ~HasIdField
    /\ closeFired
    /\ WritesBy("caller") # <<>>

\* C16 as stated: once the close has been handled the session itself sets
\* no header, does not flush and writes nothing, also when the close came
\* before the deferred tick.
C16_NoControllerWritesAfterClose ==
    [][closeFired =>
          /\ flushed' = flushed
          /\ resHeaders' = resHeaders
          /\ resStatusCode' = resStatusCode
          /\ \A k \in DOMAIN NewWrites :
                NewWrites[k].by \notin {"init", "close"}]_vars

Mandated ==
    [n \in {"content-type", "cache-control", "connection"} |->
        CASE n = "content-type" -> <<"text/event-stream">>
          [] n = "cache-control" -> <<"no-cache, no-transform">>
          [] OTHER -> <<"keep-alive">>]

\* the caller's headers under names other than the three
OtherHeaders ==
    {i \in DOMAIN headers : LowerCase(headers[i].name) \notin DOMAIN Mandated}

\* C18: once the deferred tick has run, the response has the configured
\* status code and the three protocol headers with their protocol values,
\* also when the caller's headers name one of them, and it has every other
\* header of the caller with the caller's value ("" for an absent value),
\* and no header besides.
C18_MandatedHeadersWin ==
    ~immediate =>
        /\ resStatusCode = statusCode
        /\ DOMAIN resHeaders =
              DOMAIN Mandated
                 \cup {LowerCase(headers[i].name) : i \in DOMAIN headers}
        /\ \A n \in DOMAIN Mandated : resHeaders[n] = Mandated[n]
        /\ \A i \in OtherHeaders :
              resHeaders[LowerCase(headers[i].name)] =
                 (IF headers[i].value.type = "undefined" THEN <<>>
                  ELSE headers[i].value.str)

\* initialized with a status code of the caller, a caller header that
\* names a protocol header and one that does not
C18_Witness ==
    /\ ~immediate
    /\ statusCode # DefaultStatusCode
    /\ OtherHeaders # {}
    /\ \E i \in DOMAIN headers : i \notin OtherHeaders
    /\ out # <<>>

\* the step in which the request closes
CloseStep == ~closeFired /\ closeFired'

\* the step in which the producer emits a chunk
ChunkStep == Len(produced') = Len(produced) + 1 /\ Notified.kind = "data"

\* C19: the close of the request leaves stream() alone: it does not settle
\* the completion and detaches no listener; the completion stays pending
\* as long as the producer has emitted no end, close or error, and is
\* settled in a producer notification only; a chunk emitted after the
\* close is written as an event like any other.
C19_CloseLeavesStreamAlone ==
    /\ [](Terminals = <<>> => completion = Pending)
    /\ [][/\ CloseStep =>
                UNCHANGED <<completion, subscribed, onceListeners,
                            streamOptions, produced, out>>
          /\ completion' # completion =>
                TerminalStep /\ closeFired' = closeFired
          /\ (ChunkStep /\ closeFired) =>
                /\ Len(NewWrites) = 4
                /\ \A k \in DOMAIN NewWrites :
                      /\ NewWrites[k].by = "stream"
                      /\ WriteKind(NewWrites[k]) = PushKinds[k]
                /\ NewWrites[3].text =
                      FieldText("data",
                         sanitize(serialize(Str(Notified.chunk.str)).str))]_vars

\* the request closed on an active stream(), a chunk emitted after the
\* close was written, and the completion is still pending
C19_Witness ==
    /\ closeFired
    /\ subscribed
    /\ completion = Pending
    /\ lastId \in {r.str : r \in RandomIds}
    /\ \E i \in Emitted("disconnected") : emitted[i].lastId # lastId
    /\ Len(StreamWrites) = 8

====
